---- MODULE Spec2Model ----
(***************************************************************************)
(* Model of pages/record_trade.py: the fee/tax/total calculation           *)
(* (calculate_amounts) and the read-modify-write of the trade_log          *)
(* worksheet done by main() on a form submission.                          *)
(*                                                                         *)
(* Python's float is an IEEE-754 binary64.  The arithmetic of              *)
(* calculate_amounts is modelled bit-exactly: a float is sign, mantissa    *)
(* and exponent, every product, sum and difference is rounded to 53 bits   *)
(* with round-half-to-even, and int() truncates toward zero.  A mantissa   *)
(* does not fit TLC's 32-bit integers, so naturals of arbitrary size are   *)
(* little-endian sequences of 14-bit limbs.                                *)
(***************************************************************************)
EXTENDS Integers, Sequences, FiniteSets, TLC

\* ------------------------------------------------------------------------
\* Naturals of arbitrary size (little-endian limbs, no leading zero limb)
\* ------------------------------------------------------------------------
LimbBits == 7 + 7
Base == 2^LimbBits

Rest(a) == IF a = <<>> THEN <<>> ELSE Tail(a)
Limb(a, i) == IF i <= Len(a) THEN a[i] ELSE 0

RECURSIVE BNorm(_)
BNorm(a) ==
    IF a = <<>> THEN <<>>
    ELSE IF a[Len(a)] = 0 THEN BNorm(SubSeq(a, 1, Len(a) - 1))
    ELSE a

RECURSIVE BFromNat(_)
BFromNat(n) == IF n = 0 THEN <<>> ELSE <<n % Base>> \o BFromNat(n \div Base)

RECURSIVE BToNat(_)
BToNat(a) == IF a = <<>> THEN 0 ELSE a[1] + Base * BToNat(Tail(a))

RECURSIVE BAddC(_, _, _)
BAddC(a, b, c) ==
    IF a = <<>> /\ b = <<>> THEN (IF c = 0 THEN <<>> ELSE <<c>>)
    ELSE LET s == Limb(a, 1) + Limb(b, 1) + c
         IN  <<s % Base>> \o BAddC(Rest(a), Rest(b), s \div Base)

BAdd(a, b) == BAddC(a, b, 0)

\* a - b for a >= b
RECURSIVE BSubC(_, _, _)
BSubC(a, b, c) ==
    IF a = <<>> THEN <<>>
    ELSE LET d == a[1] - Limb(b, 1) - c
         IN  <<IF d < 0 THEN d + Base ELSE d>>
             \o BSubC(Tail(a), Rest(b), IF d < 0 THEN 1 ELSE 0)

BSub(a, b) == BNorm(BSubC(a, b, 0))

RECURSIVE BCmpAt(_, _, _)
BCmpAt(a, b, i) ==
    IF i = 0 THEN 0
    ELSE IF a[i] < b[i] THEN -1
    ELSE IF a[i] > b[i] THEN 1
    ELSE BCmpAt(a, b, i - 1)

\* -1, 0, 1 as a < b, a = b, a > b
BCmp(a, b) ==
    IF Len(a) < Len(b) THEN -1
    ELSE IF Len(a) > Len(b) THEN 1
    ELSE BCmpAt(a, b, Len(a))

\* a * k for 0 <= k <= 2^16
RECURSIVE BMulC(_, _, _)
BMulC(a, k, c) ==
    IF a = <<>> THEN BFromNat(c)
    ELSE LET p == a[1] * k + c
         IN  <<p % Base>> \o BMulC(Tail(a), k, p \div Base)

BMulSmall(a, k) == BNorm(BMulC(a, k, 0))

ShiftLimb(a) == IF a = <<>> THEN <<>> ELSE <<0>> \o a

RECURSIVE BMul(_, _)
BMul(a, b) ==
    IF b = <<>> THEN <<>>
    ELSE BAdd(BMulSmall(a, b[1]), ShiftLimb(BMul(a, Tail(b))))

\* quotient and remainder of a by k, 1 <= k <= 2^16
RECURSIVE BDivMod(_, _)
BDivMod(a, k) ==
    IF a = <<>> THEN [q |-> <<>>, r |-> 0]
    ELSE LET hi  == BDivMod(Tail(a), k)
             cur == hi.r * Base + a[1]
         IN  [q |-> BNorm(<<cur \div k>> \o hi.q), r |-> cur % k]

RECURSIVE SmallBitLen(_)
SmallBitLen(n) == IF n = 0 THEN 0 ELSE 1 + SmallBitLen(n \div 2)

BBitLen(a) ==
    IF a = <<>> THEN 0 ELSE LimbBits * (Len(a) - 1) + SmallBitLen(a[Len(a)])

RECURSIVE ZeroLimbs(_)
ZeroLimbs(n) == IF n = 0 THEN <<>> ELSE <<0>> \o ZeroLimbs(n - 1)

\* a * 2^n
BShl(a, n) ==
    IF a = <<>> THEN <<>>
    ELSE ZeroLimbs(n \div LimbBits) \o BMulSmall(a, 2^(n % LimbBits))

\* floor(a / 2^n)
BShr(a, n) ==
    LET nl == n \div LimbBits
    IN  IF nl >= Len(a) THEN <<>>
        ELSE BDivMod(SubSeq(a, nl + 1, Len(a)), 2^(n % LimbBits)).q

BIsOdd(a) == a # <<>> /\ a[1] % 2 = 1

\* ------------------------------------------------------------------------
\* binary64 floats: value = (-1)^neg * m * 2^e, m < 2^53 (zero: m = <<>>)
\* ------------------------------------------------------------------------
MantBits == 53

\* m * 2^e (with `sticky': plus a positive amount below one unit of m)
\* rounded to MantBits bits, ties to even
RoundM(m, e, sticky) ==
    LET n == BBitLen(m)
    IN  IF n <= MantBits THEN [m |-> m, e |-> e]
        ELSE LET sh   == n - MantBits
                 q    == BShr(m, sh)
                 rem  == BSub(m, BShl(q, sh))
                 half == BShl(<<1>>, sh - 1)
                 c    == BCmp(rem, half)
                 up   == c > 0 \/ (c = 0 /\ (sticky \/ BIsOdd(q)))
             IN  [m |-> IF up THEN BAdd(q, <<1>>) ELSE q, e |-> e + sh]

FZero == [neg |-> FALSE, m |-> <<>>, e |-> 0]

FFromInt(n) ==
    [neg |-> n < 0, m |-> BFromNat(IF n < 0 THEN -n ELSE n), e |-> 0]

\* the float nearest to the decimal n / 10^s: what a float literal of the
\* source, or a decimal typed into a number_input, becomes
RECURSIVE DivPow10(_, _)
DivPow10(a, s) ==
    IF s = 0 THEN [q |-> a, sticky |-> FALSE]
    ELSE LET d  == BDivMod(a, 10)
             dd == DivPow10(d.q, s - 1)
         IN  [q |-> dd.q, sticky |-> dd.sticky \/ d.r # 0]

DecToFloat(n, s) ==
    IF n = 0 THEN FZero
    ELSE LET k == 60 + 4 * s
             d == DivPow10(BShl(BFromNat(n), k), s)
             r == RoundM(d.q, -k, d.sticky)
         IN  [neg |-> FALSE, m |-> r.m, e |-> r.e]

FMul(a, b) ==
    IF a.m = <<>> \/ b.m = <<>> THEN FZero
    ELSE LET r == RoundM(BMul(a.m, b.m), a.e + b.e, FALSE)
         IN  [neg |-> a.neg # b.neg, m |-> r.m, e |-> r.e]

FNeg(a) == [a EXCEPT !.neg = ~a.neg]

FAdd(a, b) ==
    IF a.m = <<>> THEN b
    ELSE IF b.m = <<>> THEN a
    ELSE LET e  == IF a.e < b.e THEN a.e ELSE b.e
             ma == BShl(a.m, a.e - e)
             mb == BShl(b.m, b.e - e)
             c  == BCmp(ma, mb)
         IN  IF a.neg = b.neg
             THEN LET r == RoundM(BAdd(ma, mb), e, FALSE)
                  IN  [neg |-> a.neg, m |-> r.m, e |-> r.e]
             ELSE IF c = 0 THEN FZero
             ELSE LET r == RoundM(IF c > 0 THEN BSub(ma, mb) ELSE BSub(mb, ma),
                                  e, FALSE)
                  IN  [neg |-> IF c > 0 THEN a.neg ELSE b.neg,
                       m |-> r.m, e |-> r.e]

FSub(a, b) == FAdd(a, FNeg(b))

\* Python's int(x): truncation toward zero
FTrunc(a) ==
    LET mag == IF a.e >= 0 THEN BToNat(BShl(a.m, a.e))
               ELSE BToNat(BShr(a.m, -a.e))
    IN  IF a.neg THEN -mag ELSE mag

\* x <= 0
FLeqZero(a) == a.m = <<>> \/ a.neg

\* ------------------------------------------------------------------------
\* calculate_amounts
\* ------------------------------------------------------------------------
\* the selectbox's two options, "買入" and "賣出"
Buy == "Buy"
Sell == "Sell"

\* default arguments fee_rate=0.001425 and tax_rate=0.003, as floats
fee_rate == DecToFloat(1425, 6)
tax_rate == DecToFloat(3, 3)
\* "台股最低手續費通常為 20 元"
MinFee == 20

Max(a, b) == IF a >= b THEN a ELSE b

\* price and discount are floats, quantity an int; fee_rate and tax_rate
\* keep their defaults, as in main()'s call.  Python evaluates the
\* products and differences left to right, converting each int operand
\* to float.
calculate_amounts(price, quantity, action, discount) ==
    LET pq      == FMul(price, FFromInt(quantity))
        raw_fee == FMul(FMul(pq, fee_rate), discount)
        fee     == Max(FTrunc(raw_fee), MinFee)
        tax     == IF action = Sell THEN FTrunc(FMul(pq, tax_rate)) ELSE 0
        total_amount ==
            IF action = Sell
            THEN FTrunc(FSub(FSub(pq, FFromInt(fee)), FFromInt(tax)))
            ELSE FTrunc(FAdd(pq, FFromInt(fee)))
    IN  [fee |-> fee, tax |-> tax, total |-> total_amount]

\* ------------------------------------------------------------------------
\* main(): one run of the page script per session
\* ------------------------------------------------------------------------
\* Streamlit runs main() once per interaction of a browser session, each
\* session on its own thread; all sessions share the trade_log worksheet.
Sessions == {"s1", "s2"}
SingleSession == {"s1"}

\* submissions (runs of main) in all
MaxSubmits == 3

\* what the form's widgets can hold (price and discount in hundredths: the
\* decimal the user typed; number_input hands its float to main()).
\* price has min_value=0.0, quantity min_value=1, discount 0.0..1.0.
StockCodes == {"", "2330"}
StockNames == {"", "TSMC"}
Actions == {Buy, Sell}
Prices == {0, 10000}
Quantities == {1000}
Discounts == {60}

Forms ==
    [submitted : {TRUE}, stock_code : StockCodes, stock_name : StockNames,
     action : Actions, price : Prices, quantity : Quantities,
     fee_discount : Discounts]

\* the form of a run in which nothing was submitted
NoForm ==
    [submitted |-> FALSE, stock_code |-> "", stock_name |-> "",
     action |-> Buy, price |-> 0, quantity |-> 1, fee_discount |-> 0]

NoRec ==
    [stock_code |-> "", stock_name |-> "", action |-> Buy, price |-> 0,
     quantity |-> 0, fee |-> 0, tax |-> 0, total |-> 0]

NoPrev == [rec |-> NoRec, ok |-> FALSE, base |-> <<>>]

NoInput == [price |-> 0, quantity |-> 0, action |-> Buy, discount |-> 0]
NoResult == [done |-> FALSE, fee |-> 0, tax |-> 0, total |-> 0]

VARIABLES
    table,      \* the rows of the trade_log worksheet, in order
    pc,         \* per session: "idle", "read" (before conn.read),
                \*   "write" (before conn.update)
    form,       \* per session: the form of its current or last run
    rec,        \* per session: new_data, the row built from the form
    updated,    \* per session: updated_data
    readRes,    \* per session: how conn.read ended: "none" (not called),
                \*   "ok", "empty" (failed: worksheet empty or missing),
                \*   "unavailable" (failed for another reason)
    outcome,    \* per session: what the run showed the user
    calls,      \* history: the store calls the run has issued
    base,       \* history: the table as the run last saw the store hold it
                \*   (at submission, then at its conn.read)
    prev,       \* history: the session's previous run
    lastWriter, \* history: the session whose conn.update wrote the table
    nsub,       \* runs started
    cin, cout   \* input and result of one call of calculate_amounts

vars == <<table, pc, form, rec, updated, readRes, outcome, calls, base, prev,
          lastWriter, nsub, cin, cout>>
storeVars == <<table, pc, form, rec, updated, readRes, outcome, calls, base,
               prev, lastWriter, nsub>>

\* Validation without the check of the name
Validation_NoNameCheck(f) ==
    IF f.stock_code = "" THEN "warning_code_name"
    ELSE IF FLeqZero(DecToFloat(f.price, 2)) \/ f.quantity <= 0
         THEN "warning_price_quantity"
    ELSE "ok"

\* lines 94-100: the two checks made on a submitted form
Validation(f) ==
    IF f.stock_code = "" \/ f.stock_name = "" THEN "warning_code_name"
    ELSE IF FLeqZero(DecToFloat(f.price, 2)) \/ f.quantity <= 0
         THEN "warning_price_quantity"
    ELSE "ok"

\* lines 103-128: the row written for a form (date, time and note are
\* copied from the form unchanged and left out)
new_data(f) ==
    LET r == calculate_amounts(DecToFloat(f.price, 2), f.quantity, f.action,
                               DecToFloat(f.fee_discount, 2))
    IN  [stock_code |-> f.stock_code, stock_name |-> f.stock_name,
         action |-> f.action, price |-> f.price, quantity |-> f.quantity,
         fee |-> r.fee, tax |-> r.tax, total |-> r.total]

\* updated_data with the new row put first
updated_data_Prepend(res, existing_data, row) ==
    IF res = "ok" THEN <<row>> \o existing_data ELSE <<row>>

\* updated_data with the new row forgotten when conn.read raised
updated_data_DropOnFail(res, existing_data, row) ==
    IF res = "ok" THEN existing_data \o <<row>> ELSE <<>>

\* updated_data that skips a row equal to the last one
updated_data_Dedup(res, existing_data, row) ==
    IF res = "ok"
    THEN IF existing_data # <<>> /\ existing_data[Len(existing_data)] = row
         THEN existing_data
         ELSE existing_data \o <<row>>
    ELSE <<row>>

\* lines 138-143: pd.concat([existing_data, new_data]) when conn.read
\* returned, new_data alone when it raised (any exception)
updated_data(res, existing_data, row) ==
    IF res = "ok" THEN existing_data \o <<row>> ELSE <<row>>

\* an update that appends the last row of `data' to what the store holds
update_AppendRow(current, data) ==
    IF data = <<>> THEN current ELSE Append(current, data[Len(data)])

\* line 146: conn.update replaces the worksheet's contents by `data'
update(current, data) == data

\* what a run leaves of the session's previous one
Shift(s) ==
    [rec  |-> rec[s],
     ok   |-> outcome[s] = "success" /\ readRes[s] = "ok",
     base |-> base[s]]

\* Validation and new_data of every form the widgets can hold, computed once
FormCheck == [f \in Forms |-> Validation(f)] @@ <<>>
FormRow ==
    [f \in Forms |-> IF FormCheck[f] = "ok" THEN new_data(f) ELSE NoRec] @@ <<>>

\* A run starts: every per-run variable is set anew
Begin(s, f, r, out, next) ==
    /\ pc[s] = "idle"
    /\ nsub < MaxSubmits
    /\ nsub' = nsub + 1
    /\ prev' = [prev EXCEPT ![s] = Shift(s)]
    /\ form' = [form EXCEPT ![s] = f]
    /\ rec' = [rec EXCEPT ![s] = r]
    /\ updated' = [updated EXCEPT ![s] = <<>>]
    /\ readRes' = [readRes EXCEPT ![s] = "none"]
    /\ calls' = [calls EXCEPT ![s] = <<>>]
    /\ base' = [base EXCEPT ![s] = table]
    /\ outcome' = [outcome EXCEPT ![s] = out]
    /\ pc' = [pc EXCEPT ![s] = next]
    /\ UNCHANGED <<table, lastWriter, cin, cout>>

\* lines 60-66: st.connection raises; the run ends before the form
ConnFail(s) == Begin(s, NoForm, NoRec, "conn_error", "idle")

\* lines 92-128: the form is submitted; validation, then the new row
Submit(s, f) ==
    LET v == FormCheck[f]
    IN  IF v = "ok" THEN Begin(s, f, FormRow[f], "pending", "read")
        ELSE Begin(s, f, NoRec, v, "idle")

\* lines 138-143: conn.read returns the rows or raises
Read(s, res) ==
    /\ pc[s] = "read"
    /\ res = "empty" => table = <<>>
    /\ readRes' = [readRes EXCEPT ![s] = res]
    /\ base' = [base EXCEPT ![s] = table]
    /\ calls' = [calls EXCEPT ![s] = Append(@, "read")]
    /\ updated' = [updated EXCEPT ![s] = updated_data(res, table, rec[s])]
    /\ pc' = [pc EXCEPT ![s] = "write"]
    /\ UNCHANGED <<table, form, rec, outcome, prev, lastWriter, nsub,
                   cin, cout>>

\* lines 146-157: conn.update succeeds (st.success) or raises (the outer
\* except: st.error), leaving the worksheet as it was
Write(s, ok) ==
    /\ pc[s] = "write"
    /\ calls' = [calls EXCEPT ![s] = Append(@, "update")]
    /\ table' = IF ok THEN update(table, updated[s]) ELSE table
    /\ lastWriter' = IF ok THEN s ELSE lastWriter
    /\ outcome' = [outcome EXCEPT
                     ![s] = IF ok THEN "success" ELSE "store_error"]
    /\ pc' = [pc EXCEPT ![s] = "idle"]
    /\ UNCHANGED <<form, rec, updated, readRes, base, prev, nsub, cin, cout>>

InitStore ==
    /\ table = <<>>
    /\ pc = [s \in Sessions |-> "idle"]
    /\ form = [s \in Sessions |-> NoForm]
    /\ rec = [s \in Sessions |-> NoRec]
    /\ updated = [s \in Sessions |-> <<>>]
    /\ readRes = [s \in Sessions |-> "none"]
    /\ outcome = [s \in Sessions |-> "none"]
    /\ calls = [s \in Sessions |-> <<>>]
    /\ base = [s \in Sessions |-> <<>>]
    /\ prev = [s \in Sessions |-> NoPrev]
    /\ lastWriter = "none"
    /\ nsub = 0

Init == InitStore /\ cin = NoInput /\ cout = NoResult

\* concurrent sessions
Next ==
    \E s \in Sessions :
        \/ ConnFail(s)
        \/ \E f \in Forms : Submit(s, f)
        \/ \E res \in {"ok", "empty", "unavailable"} : Read(s, res)
        \/ \E ok \in BOOLEAN : Write(s, ok)

Spec == Init /\ [][Next]_vars

\* a single writer: one session, one run at a time
NextSingle ==
    \E s \in SingleSession :
        \/ ConnFail(s)
        \/ \E f \in Forms : Submit(s, f)
        \/ \E res \in {"ok", "empty", "unavailable"} : Read(s, res)
        \/ \E ok \in BOOLEAN : Write(s, ok)

SpecSingle == Init /\ [][NextSingle]_vars

\* ------------------------------------------------------------------------
\* calculate_amounts on its own
\* ------------------------------------------------------------------------
CalcPrices == {1, 29, 50, 100, 201, 10000, 50000, 100000, 200000}
CalcQuantities == {1, 100, 1000, 2000, 3000}
CalcDiscounts == {0, 35, 60, 70, 100}

CalcInputs ==
    [price : CalcPrices, quantity : CalcQuantities, action : Actions,
     discount : CalcDiscounts]

InitCalc == InitStore /\ cin \in CalcInputs /\ cout = NoResult

Compute ==
    /\ ~cout.done
    /\ cout' = [done |-> TRUE] @@
               calculate_amounts(DecToFloat(cin.price, 2), cin.quantity,
                                 cin.action, DecToFloat(cin.discount, 2))
    /\ UNCHANGED <<cin, storeVars>>

NextCalc == Compute

SpecCalc == InitCalc /\ [][NextCalc]_vars
\* ------------------------------------------------------------------------
\* Properties
\* ------------------------------------------------------------------------
IsPrefix(a, b) == Len(a) <= Len(b) /\ SubSeq(b, 1, Len(a)) = a

Warnings == {"warning_code_name", "warning_price_quantity"}

\* a submitted form the spec calls invalid, on the decimals typed
InvalidForm(f) ==
    /\ f.submitted
    /\ f.stock_code = "" \/ f.stock_name = "" \/ f.price <= 0 \/ f.quantity <= 0

\* the run of s has ended with st.success
Succeeded(s) == pc[s] = "idle" /\ outcome[s] = "success"

\* C1: a validated submission whose read of trade_log failed for a reason
\* other than an empty or missing table ends with the store error, without
\* any conn.update issued, and leaves the table as it was.
C1_ReadFailureNoWrite ==
    \A s \in Sessions :
        (readRes[s] = "unavailable" /\ pc[s] = "idle") =>
            /\ outcome[s] = "store_error"
            /\ calls[s] = <<"read">>
            /\ table = base[s]

\* C2: single writer: every step leaves the earlier table a prefix of the
\* later one (no row removed, changed or reordered).
C2_AppendOnly == [][IsPrefix(table, table')]_vars

\* C3: single writer: a submitted form with an empty symbol or name, or a
\* price or quantity <= 0, ends with a validation warning, issues neither
\* conn.read nor conn.update, and leaves the table as it was.
C3_InvalidNoStoreContact ==
    \A s \in Sessions :
        InvalidForm(form[s]) =>
            /\ pc[s] = "idle"
            /\ outcome[s] \in Warnings
            /\ readRes[s] = "none"
            /\ calls[s] = <<>>
            /\ table = base[s]

C3_Witness ==
    \E s \in Sessions :
        /\ InvalidForm(form[s])
        /\ outcome[s] \in Warnings
        /\ table # <<>>

\* two runs that both read the same rows, both wrote and both showed
\* success, t's conn.update being the later one
LostUpdate(s, t) ==
    /\ s # t
    /\ Succeeded(s) /\ Succeeded(t)
    /\ readRes[s] = "ok" /\ readRes[t] = "ok"
    /\ base[s] = base[t]
    /\ lastWriter = t

\* C4: when two concurrent submissions read the same base before either
\* writes and both writes succeed, both report success and the table is
\* the base plus the second writer's row only: one row more than the base,
\* the first writer's row gone.  The witness shows the state is reached.
C4_LostUpdate ==
    \A s, t \in Sessions :
        LostUpdate(s, t) =>
            /\ table = Append(base[t], rec[t])
            /\ Len(table) = Len(base[s]) + 1
            /\ table # base[s] \o <<rec[s], rec[t]>>

C4_Witness ==
    \E s, t \in Sessions :
        /\ LostUpdate(s, t)
        /\ base[s] # <<>>
        /\ rec[s] # rec[t]
        /\ \A i \in 1..Len(table) : table[i] # rec[s]

\* C5: after a run whose conn.read and conn.update both succeeded, the
\* table it wrote is the rows it read, in their order, followed by the new
\* row: one row longer, nothing else added, removed or reordered.
C5_WriteIsBasePlusRow ==
    \A s \in Sessions :
        (Succeeded(s) /\ readRes[s] = "ok" /\ lastWriter = s) =>
            /\ table = base[s] \o <<rec[s]>>
            /\ Len(table) = Len(base[s]) + 1

C5_Witness ==
    \E s \in Sessions :
        /\ Succeeded(s) /\ readRes[s] = "ok" /\ lastWriter = s
        /\ base[s] # <<>>
        /\ base[s][1] # rec[s]

\* C6: a valid submission against an empty or missing table, whether its
\* read returned no rows or failed for that reason, does not fail: once
\* its write has succeeded the table is exactly the submitted row.
C6_EmptyTableOneRow ==
    \A s \in Sessions :
        (readRes[s] \in {"ok", "empty"} /\ base[s] = <<>>) =>
            /\ updated[s] = <<rec[s]>>
            /\ pc[s] = "idle" => calls[s] = <<"read", "update">>
            /\ (Succeeded(s) /\ lastWriter = s) => table = <<rec[s]>>

C6_Witness ==
    \E s \in Sessions :
        /\ Succeeded(s) /\ lastWriter = s
        /\ readRes[s] = "empty"
        /\ base[s] = <<>>
        /\ rec[s] = FormRow[form[s]]

\* C7: single writer: the same valid record submitted twice in a row, both
\* reads and both writes succeeding, leaves the table two rows longer than
\* before, both equal to the record.
C7_TwiceGivesTwoRows ==
    \A s \in Sessions :
        (/\ Succeeded(s) /\ readRes[s] = "ok"
         /\ prev[s].ok /\ prev[s].rec = rec[s]) =>
            /\ table = prev[s].base \o <<rec[s], rec[s]>>
            /\ Len(table) = Len(prev[s].base) + 2

C7_Witness ==
    \E s \in Sessions :
        /\ Succeeded(s) /\ readRes[s] = "ok"
        /\ prev[s].ok /\ prev[s].rec = rec[s]
        /\ prev[s].base # <<>>

\* the amounts in exact decimal arithmetic (price and discount in
\* hundredths), each truncated to an integer
ExactValue(in) == (in.price * in.quantity) \div 100
ExactTax(in) == (in.price * in.quantity * 3) \div 100000
ExactRawFee(in) ==
    BToNat(DivPow10(BMulSmall(BMulSmall(BFromNat(in.price * in.quantity),
                                        1425),
                              in.discount),
                    10).q)

\* C8: for a Sell, tax = truncate(price x quantity x 0.003) and
\* total = truncate(price x quantity) - fee - tax, also when
\* price x quantity is below fee + tax.
C8_SellTaxAndTotal ==
    (cout.done /\ cin.action = Sell) =>
        /\ cout.tax = ExactTax(cin)
        /\ cout.total = ExactValue(cin) - cout.fee - cout.tax

\* C9: on both sides,
\* fee = max(truncate(price x quantity x 0.001425 x discount), 20).
C9_Fee == cout.done => cout.fee = Max(ExactRawFee(cin), 20)

\* C10: for a Buy, tax = 0 and total = truncate(price x quantity) + fee.
C10_BuyTotal ==
    (cout.done /\ cin.action = Buy) =>
        /\ cout.tax = 0
        /\ cout.total = ExactValue(cin) + cout.fee
====
